---------------------------- MODULE Spec2Model ----------------------------
(*************************************************************************)
(* A model of the virtual-lab core of the fabricator repository:         *)
(*   - portIdForName, the port-naming rule (SpecPort);                   *)
(*   - NewVMManager / VMManager.AddLink, the topology compiler           *)
(*     (SpecIDs for wiring models without connections, SpecVM with);     *)
(*   - Service.TestServerConnectivity, phases C and D of the             *)
(*     connectivity verification engine (SpecTest).                      *)
(* Strings the code inspects character by character (port names) are     *)
(* sequences of one-character strings; names that are only compared      *)
(* (devices, connections, VPCs) are plain strings.  Go's int is 64 bits  *)
(* wide; every integer of the bounded inputs below stays far inside      *)
(* that range, so no arithmetic of the model wraps.                      *)
(*************************************************************************)
EXTENDS Integers, Sequences, FiniteSets, TLC

VARIABLES
    \* ---- portIdForName called on its own
    pname,        \* the port name handed to portIdForName
    pres,         \* its result [id, err], or NoResult before the call
    \* ---- NewVMManager
    servers,      \* data.Server.All(): sequence of [name, type]
    switches,     \* data.Switch.All(): sequence of names
    cfgLinks,     \* cfg.Links: passthrough configuration, port name -> pci
    pc,           \* position inside NewVMManager
    vmID,         \* the local counter vmID
    vms,          \* mngr.vms: device name -> VM record
    conn,         \* the loop variable conn: the connection being expanded
    nconn,        \* how many connections data.Connection.All() has yielded
    linksDone,    \* the links added in both directions so far: [a, b, conn]
    ret,          \* the returned pair [mngr, err]
    \* ---- TestServerConnectivity
    tcfg,         \* ServerConnectivityTestConfig
    tservers,     \* the map servers: name -> Server record
    peering,      \* the loop variable of the range over vpcPeeringList.Items
    extPeering,   \* the loop variable of the range over externalPeeringList.Items
    peered,       \* the pairs (vpc1, vpc2) of the VPC peerings applied so far
    tpc,          \* position inside TestServerConnectivity
    ti,           \* index of the outer loop over sortedServer
    tj,           \* index of the inner loop over sortedServer / Externals
    totalTested,
    totalPassed,
    lastPing,     \* the ping check most recently classified
    evaluated,    \* ordered pairs whose loop body has run to its end
    extEvaluated, \* (server, external) egress checks that have run
    failedChecks, \* how many executed checks had a failing verdict
    tret,         \* how TestServerConnectivity ended
    \* ---- the throughput check of one pair, task by task
    passedBefore, \* the value of passed when the throughput check starts
    probe,        \* how the two iperf3 sessions end: an IperfOutcome
    passedFlag,   \* the variable passed, shared by the three threads
    serverTask,   \* position of the goroutine that runs iperf3 -s
    clientTask,   \* position of the goroutine that runs iperf3 -c
    wg,           \* the counter of the sync.WaitGroup
    ipc,          \* position of the initiating thread
    writers,      \* the threads that have assigned to passed
    scored,       \* "no", or how the pair was scored: "passed", "failed"
    \* ---- TestServerConnectivity up to the test universe
    agent,        \* the loop variable of the range over agentList.Items
    agentDefect,  \* an agent ranged over was stale or not converged
    devices,      \* svc.cfg.Wiring.Server.All()
    tconns,       \* svc.cfg.Wiring.Connection.All()
    attachments,  \* vpcAttachList.Items
    di,           \* index of serverLoop in devices
    remoteCalls,  \* how many commands svc.ssh has run on emulated hosts
    \* ---- CreateVPCPerServer
    cservers,     \* svc.cfg.Wiring.Server.All()
    cconns,       \* svc.cfg.Wiring.Connection.All()
    csi,          \* index of the loop over the servers
    vpcIdx,       \* the variable idx
    netconfs,     \* the slice netconfs
    ni,           \* index of the loop over netconfs
    vpcStore,     \* the VPC objects created or updated in the store
    attachStore,  \* the VPCAttachment objects created or updated
    configured,   \* the servers on which hhnet has run
    cpc,          \* position in CreateVPCPerServer
    cret          \* how CreateVPCPerServer ended

portVars == <<pname, pres>>
vmVars == <<servers, switches, cfgLinks, pc, vmID, vms, conn, nconn, linksDone, ret>>
testVars == <<tcfg, tservers, peering, extPeering, peered, tpc, ti, tj,
              totalTested, totalPassed, lastPing, evaluated, extEvaluated,
              failedChecks, tret>>
iperfVars == <<passedBefore, probe, passedFlag, serverTask, clientTask, wg, ipc,
               writers, scored>>
uniVars == <<agent, agentDefect, devices, tconns, attachments, di, remoteCalls>>
createVars == <<cservers, cconns, csi, vpcIdx, netconfs, ni, vpcStore, attachStore,
                configured, cpc, cret>>
otherVars == <<iperfVars, uniVars, createVars>>
vars == <<portVars, vmVars, testVars, otherVars>>

--------------------------------------------------------------------------
(* Strings as sequences of characters *)

Digits == <<"0", "1", "2", "3", "4", "5", "6", "7", "8", "9">>

DigitSet == {Digits[i] : i \in 1..10}

\* the value of a decimal digit character
DigitVal(c) == (CHOOSE i \in 1..10 : Digits[i] = c) - 1

\* strings.HasPrefix
HasPrefix(s, p) == Len(s) >= Len(p) /\ SubSeq(s, 1, Len(p)) = p

\* strings.CutPrefix, first result (the prefix is known to be there)
CutPrefix(s, p) == SubSeq(s, Len(p) + 1, Len(s))

\* the loop of strconv.Atoi over the digits: n = n*10 + digit
RECURSIVE DigitsValue(_, _)
DigitsValue(s, n) ==
    IF s = <<>> THEN n
    ELSE DigitsValue(Tail(s), n * 10 + DigitVal(Head(s)))

\* strconv.Atoi: an optional sign, then at least one decimal digit, and
\* nothing else; (0, error) otherwise
Atoi(s) ==
    IF s = <<>> THEN [n |-> 0, err |-> TRUE]
    ELSE LET signed == Head(s) \in {"-", "+"}
             body == IF signed THEN Tail(s) ELSE s
         IN  IF body = <<>> \/ \E i \in 1..Len(body) : body[i] \notin DigitSet
             THEN [n |-> 0, err |-> TRUE]
             ELSE LET v == DigitsValue(body, 0)
                  IN  [n |-> IF Head(s) = "-" THEN 0 - v ELSE v, err |-> FALSE]

PfxManagement0 == <<"M", "a", "n", "a", "g", "e", "m", "e", "n", "t", "0">>
PfxEthernet == <<"E", "t", "h", "e", "r", "n", "e", "t">>
PfxPort == <<"p", "o", "r", "t">>
PfxEnp2s == <<"e", "n", "p", "2", "s">>

\* portIdForName with the Ethernet offset dropped: a plausible slip
portIdForName_noOffset(name) ==
    IF HasPrefix(name, PfxManagement0) THEN [id |-> 0, err |-> FALSE]
    ELSE IF HasPrefix(name, PfxEthernet)
    THEN LET r == Atoi(CutPrefix(name, PfxEthernet)) IN [id |-> r.n, err |-> r.err]
    ELSE IF HasPrefix(name, PfxPort)
    THEN LET r == Atoi(CutPrefix(name, PfxPort)) IN [id |-> r.n, err |-> r.err]
    ELSE IF HasPrefix(name, PfxEnp2s)
    THEN LET r == Atoi(CutPrefix(name, PfxEnp2s)) IN [id |-> r.n, err |-> r.err]
    ELSE [id |-> -1, err |-> TRUE]

\* portIdForName: (index, error)
portIdForName(name) ==
    IF HasPrefix(name, PfxManagement0) THEN [id |-> 0, err |-> FALSE]
    ELSE IF HasPrefix(name, PfxEthernet)
    THEN LET r == Atoi(CutPrefix(name, PfxEthernet)) IN [id |-> r.n + 1, err |-> r.err]
    ELSE IF HasPrefix(name, PfxPort)
    THEN LET r == Atoi(CutPrefix(name, PfxPort)) IN [id |-> r.n, err |-> r.err]
    ELSE IF HasPrefix(name, PfxEnp2s)
    THEN LET r == Atoi(CutPrefix(name, PfxEnp2s)) IN [id |-> r.n, err |-> r.err]
    ELSE [id |-> -1, err |-> TRUE]

--------------------------------------------------------------------------
(* The topology compiler: NewVMManager and VMManager.AddLink *)

\* ---- bounds of the wiring models explored
MaxServers == 2
MaxSwitches == 2
MaxConns == 2
MaxLinks == 2
MaxIDServers == 3
MaxIDSwitches == 2

\* ---- port constants; they are declared in a file of the package that is
\* not among the sources at hand
SSH_PORT_BASE == 22000
IF_PORT_BASE == 30000
IF_PORT_VM_ID_MULT == 100
IF_PORT_PORT_ID_MULT == 1

VMTypeControl == "control"
VMTypeServer == "server"
VMTypeSwitchVS == "switch-vs"

ServerTypeControl == "control"
ServerTypeDefault == ""

\* a nil wiringapi.IPort
NilPort == [dev |-> "<nil>", port |-> <<>>]

\* a VMInterface's Netdev: "" (none), the user-mode management netdev, or a
\* UDP socket netdev with an optional paired endpoint (localaddr)
NoNetdev == [kind |-> ""]
UserNetdev(id, name, fwd, restrict) ==
    [kind |-> "user", ssh |-> SSH_PORT_BASE + id, fwd |-> fwd, hostname |-> name,
     net |-> id, restrict |-> restrict]
SocketNetdev(udp, localaddr) == [kind |-> "socket", udp |-> udp, localaddr |-> localaddr]

\* the zero VMInterface{}
EmptyInterface == [Connection |-> "", Netdev |-> NoNetdev, Passthrough |-> ""]

NoVMs == [n \in {} |-> n]

\* the result of a step that may fail: the registry and the error ("" is nil)
Outcome(v, id, err) == [vms |-> v, vmID |-> id, err |-> err]

sshPortFor(id) == SSH_PORT_BASE + id

\* VM.ifacePortFor with the VM term dropped: every VM gets the same ports
ifacePortFor_noVM(vm, iface) == IF_PORT_BASE + iface * IF_PORT_PORT_ID_MULT

\* VM.ifacePortFor
ifacePortFor(vm, iface) ==
    IF_PORT_BASE + vm.ID * IF_PORT_VM_ID_MULT + iface * IF_PORT_PORT_ID_MULT

\* one VM as the ID pass creates it
NewVM(id, name, type) ==
    [ID |-> id, Name |-> name, Type |-> type,
     Interfaces |->
        IF type = VMTypeControl
        THEN (0 :> [Connection |-> "host",
                    Netdev |-> UserNetdev(id, name, {22, 6443, 31000}, FALSE),
                    Passthrough |-> ""])
        ELSE IF type = VMTypeServer
        THEN (0 :> [Connection |-> "host",
                    Netdev |-> UserNetdev(id, name, {22}, TRUE),
                    Passthrough |-> ""])
        ELSE [i \in {} |-> EmptyInterface]]

\* one loop of the ID pass over the device names `names`, which skips a
\* duplicate instead of failing
RECURSIVE IDLoop_skipDup(_, _, _, _)
IDLoop_skipDup(names, type, v, id) ==
    IF names = <<>> THEN Outcome(v, id, "")
    ELSE IF Head(names) \in DOMAIN v
    THEN IDLoop_skipDup(Tail(names), type, v, id)
    ELSE IDLoop_skipDup(Tail(names), type,
                        v @@ (Head(names) :> NewVM(id, Head(names), type)), id + 1)

\* one loop of the ID pass that increments vmID before using it
RECURSIVE IDLoop_preIncrement(_, _, _, _)
IDLoop_preIncrement(names, type, v, id) ==
    IF names = <<>> THEN Outcome(v, id, "")
    ELSE IF Head(names) \in DOMAIN v
    THEN Outcome(v, id, "duplicate-name")
    ELSE IDLoop_preIncrement(Tail(names), type,
                             v @@ (Head(names) :> NewVM(id + 1, Head(names), type)), id + 1)

\* one loop of the ID pass over the device names `names`, in order: fail on
\* a name already in mngr.vms, else add the VM and increment vmID
RECURSIVE IDLoop(_, _, _, _)
IDLoop(names, type, v, id) ==
    IF names = <<>> THEN Outcome(v, id, "")
    ELSE IF Head(names) \in DOMAIN v
    THEN Outcome(v, id, "duplicate-name")
    ELSE IDLoop(Tail(names), type,
                v @@ (Head(names) :> NewVM(id, Head(names), type)), id + 1)

\* the names of the servers of type `t`, in data.Server.All() order
RECURSIVE ServerNamesOfType(_, _)
ServerNamesOfType(list, t) ==
    IF list = <<>> THEN <<>>
    ELSE IF Head(list).type = t
    THEN <<Head(list).name>> \o ServerNamesOfType(Tail(list), t)
    ELSE ServerNamesOfType(Tail(list), t)

\* return nil, err
Fail(err) ==
    /\ ret' = [nil |-> TRUE, mngr |-> NoVMs, err |-> err]
    /\ pc' = "done"

\* the control-node loop and the two checks on vmID after it
ControlPass ==
    /\ pc = "control"
    /\ LET r == IDLoop(ServerNamesOfType(servers, ServerTypeControl), VMTypeControl, vms, vmID)
       IN  IF r.err # "" THEN Fail(r.err) /\ UNCHANGED <<vms, vmID>>
           ELSE IF r.vmID = 0 THEN Fail("no-control") /\ UNCHANGED <<vms, vmID>>
           ELSE IF r.vmID > 1 THEN Fail("multiple-control") /\ UNCHANGED <<vms, vmID>>
           ELSE vms' = r.vms /\ vmID' = r.vmID /\ pc' = "servers" /\ UNCHANGED ret
    /\ UNCHANGED <<servers, switches, cfgLinks, conn, nconn, linksDone, portVars, testVars, otherVars>>

\* the loop over the plain servers
ServerPass ==
    /\ pc = "servers"
    /\ LET r == IDLoop(ServerNamesOfType(servers, ServerTypeDefault), VMTypeServer, vms, vmID)
       IN  IF r.err # "" THEN Fail(r.err) /\ UNCHANGED <<vms, vmID>>
           ELSE vms' = r.vms /\ vmID' = r.vmID /\ pc' = "switches" /\ UNCHANGED ret
    /\ UNCHANGED <<servers, switches, cfgLinks, conn, nconn, linksDone, portVars, testVars, otherVars>>

\* the loop over the switches
SwitchPass ==
    /\ pc = "switches"
    /\ LET r == IDLoop(switches, VMTypeSwitchVS, vms, vmID)
       IN  IF r.err # "" THEN Fail(r.err) /\ UNCHANGED <<vms, vmID>>
           ELSE vms' = r.vms /\ vmID' = r.vmID /\ pc' = "conns" /\ UNCHANGED ret
    /\ UNCHANGED <<servers, switches, cfgLinks, conn, nconn, linksDone, portVars, testVars, otherVars>>

\* ---- connections

Variants == {"Unbundled", "Bundled", "Management", "MCLAG", "MCLAGDomain",
             "NAT", "Fabric", "VPCLoopback"}

\* conn.Name of the i-th connection of data.Connection.All(): the store
\* keys connections by name, so the names differ
ConnNames == <<"conn-1", "conn-2", "conn-3", "conn-4">>

\* the if-chain over conn.Spec: how the variant's links are expanded. "one":
\* the variant's single Link; "list": every element of its Links (for
\* MCLAGDomain its PeerLinks, then its SessionLinks); "nat": the single
\* switch port with a nil remote; no variant set: the error
ExpandKind(variant) ==
    CASE variant = "Unbundled" -> "one"
      [] variant = "Bundled" -> "list"
      [] variant = "Management" -> "one"
      [] variant = "MCLAG" -> "list"
      [] variant = "MCLAGDomain" -> "list"
      [] variant = "NAT" -> "nat"
      [] variant = "Fabric" -> "list"
      [] variant = "VPCLoopback" -> "list"
      [] OTHER -> "unsupported"

\* vm with Interfaces[idx] set to iface
WithInterface(v, dev, idx, iface) ==
    [v EXCEPT ![dev].Interfaces =
        [i \in (DOMAIN @) \cup {idx} |-> IF i = idx THEN iface ELSE @[i]]]

\* AddLink without the check that the index is free: the later link wins
AddLink_overwrite(v, links, local, dest, connName) ==
    IF local = NilPort THEN [vms |-> v, err |-> "nil-local"]
    ELSE IF local.dev \notin DOMAIN v THEN [vms |-> v, err |-> "no-device"]
    ELSE LET lp == portIdForName(local.port)
             dp == IF dest # NilPort THEN portIdForName(dest.port) ELSE [id |-> -1, err |-> FALSE]
         IN  IF lp.err THEN [vms |-> v, err |-> "port-name"]
             ELSE IF dp.err THEN [vms |-> v, err |-> "port-name"]
             ELSE IF dest # NilPort /\ dest.dev \notin DOMAIN v
             THEN [vms |-> v, err |-> "no-dest-device"]
             ELSE IF local \in DOMAIN links
             THEN IF links[local] = "" THEN [vms |-> v, err |-> "no-pci"]
                  ELSE [vms |-> WithInterface(v, local.dev, lp.id,
                                   [Connection |-> connName, Netdev |-> NoNetdev,
                                    Passthrough |-> links[local]]),
                        err |-> ""]
             ELSE [vms |-> WithInterface(v, local.dev, lp.id,
                              [Connection |-> connName,
                               Netdev |-> SocketNetdev(
                                   ifacePortFor(v[local.dev], lp.id),
                                   IF dest # NilPort
                                   THEN <<ifacePortFor(v[dest.dev], dp.id)>>
                                   ELSE <<>>),
                               Passthrough |-> ""]),
                   err |-> ""]

\* AddLink that records the management name instead of the connection's
AddLink_wrongName(v, links, local, dest, connName) ==
    IF local = NilPort THEN [vms |-> v, err |-> "nil-local"]
    ELSE IF local.dev \notin DOMAIN v THEN [vms |-> v, err |-> "no-device"]
    ELSE LET lp == portIdForName(local.port)
             dp == IF dest # NilPort THEN portIdForName(dest.port) ELSE [id |-> -1, err |-> FALSE]
         IN  IF lp.err THEN [vms |-> v, err |-> "port-name"]
             ELSE IF dp.err THEN [vms |-> v, err |-> "port-name"]
             ELSE IF dest # NilPort /\ dest.dev \notin DOMAIN v
             THEN [vms |-> v, err |-> "no-dest-device"]
             ELSE IF lp.id \in DOMAIN v[local.dev].Interfaces
             THEN [vms |-> v, err |-> "dup-iface"]
             ELSE IF local \in DOMAIN links
             THEN IF links[local] = "" THEN [vms |-> v, err |-> "no-pci"]
                  ELSE [vms |-> WithInterface(v, local.dev, lp.id,
                                   [Connection |-> "host", Netdev |-> NoNetdev,
                                    Passthrough |-> links[local]]),
                        err |-> ""]
             ELSE [vms |-> WithInterface(v, local.dev, lp.id,
                              [Connection |-> "host",
                               Netdev |-> SocketNetdev(
                                   ifacePortFor(v[local.dev], lp.id),
                                   IF dest # NilPort
                                   THEN <<ifacePortFor(v[dest.dev], dp.id)>>
                                   ELSE <<>>),
                               Passthrough |-> ""]),
                   err |-> ""]

\* VMManager.AddLink(local, dest, conn) on the registry v with cfg.Links =
\* links: the registry after the call and the error ("" is nil)
AddLink(v, links, local, dest, connName) ==
    IF local = NilPort THEN [vms |-> v, err |-> "nil-local"]
    ELSE IF local.dev \notin DOMAIN v THEN [vms |-> v, err |-> "no-device"]
    ELSE LET lp == portIdForName(local.port)
             dp == IF dest # NilPort THEN portIdForName(dest.port) ELSE [id |-> -1, err |-> FALSE]
         IN  IF lp.err THEN [vms |-> v, err |-> "port-name"]
             ELSE IF dp.err THEN [vms |-> v, err |-> "port-name"]
             ELSE IF dest # NilPort /\ dest.dev \notin DOMAIN v
             THEN [vms |-> v, err |-> "no-dest-device"]
             ELSE IF lp.id \in DOMAIN v[local.dev].Interfaces
             THEN [vms |-> v, err |-> "dup-iface"]
             ELSE IF local \in DOMAIN links
             THEN IF links[local] = "" THEN [vms |-> v, err |-> "no-pci"]
                  ELSE [vms |-> WithInterface(v, local.dev, lp.id,
                                   [Connection |-> connName, Netdev |-> NoNetdev,
                                    Passthrough |-> links[local]]),
                        err |-> ""]
             ELSE [vms |-> WithInterface(v, local.dev, lp.id,
                              [Connection |-> connName,
                               Netdev |-> SocketNetdev(
                                   ifacePortFor(v[local.dev], lp.id),
                                   IF dest # NilPort
                                   THEN <<ifacePortFor(v[dest.dev], dp.id)>>
                                   ELSE <<>>),
                               Passthrough |-> ""]),
                   err |-> ""]

\* the body of the loop over links that calls AddLink once only
LinkBothWays_forwardOnly(v, links, pair, name) == AddLink(v, links, pair[1], pair[2], name)

\* the body of the loop over links: AddLink(link[0], link[1]) and then
\* AddLink(link[1], link[0]), returning at the first error
LinkBothWays(v, links, pair, name) ==
    LET fwd == AddLink(v, links, pair[1], pair[2], name)
    IN  IF fwd.err # "" THEN fwd
        ELSE AddLink(fwd.vms, links, pair[2], pair[1], name)

\* ---- the wiring models explored

ServerNames == {"a", "b"}
SwitchNames == {"a", "s"}
IDServerNames == {"a", "b", "c"}
IDSwitchNames == {"c", "s", "t"}
ServerTypes == {ServerTypeControl, ServerTypeDefault}

SeqsUpTo(S, n) == UNION {[1..k -> S] : k \in 0..n}

\* the ports of the wiring models. On device "a": index 100, a negative
\* index, index 0 and a non-numeric suffix; on device "s": index 1 under two
\* names, index 0 and an unknown convention
PortsA ==
    [dev : {"a"},
     port : {PfxPort \o <<"1", "0", "0">>, PfxPort \o <<"-", "1">>, PfxManagement0,
             PfxPort \o <<"x">>}]
PortsS ==
    [dev : {"s"},
     port : {PfxEthernet \o <<"0">>, PfxPort \o <<"1">>, PfxManagement0,
             <<"w", "e", "i", "r", "d", "0">>}]
Ports == PortsA \cup PortsS

\* the links a variant may hold: from any port to a port of "s"; a NAT
\* link has a nil remote
LinksOf(variant) ==
    IF ExpandKind(variant) = "nat" THEN {<<p, NilPort>> : p \in Ports}
    ELSE Ports \X PortsS

\* how many links the variant's spec may hold: exactly one for a variant
\* with a single Link field, up to MaxLinks for a list
LinkLimit(variant) == IF ExpandKind(variant) = "list" THEN MaxLinks ELSE 1

\* cfg.Links: nothing, or one switch port with or without its PCI address
PassPort == [dev |-> "s", port |-> PfxPort \o <<"1">>]
CfgLinkChoices ==
    {[p \in {} |-> ""], (PassPort :> "0000:01:00.0"), (PassPort :> "")}

NoRet == [nil |-> TRUE, mngr |-> NoVMs, err |-> "pending"]
NoConn == [name |-> "", variant |-> "", links |-> <<>>]

\* data.Connection.All() yields the next connection; the if-chain over its
\* variant fails for a connection with none set
StartConn ==
    /\ pc = "conns"
    /\ nconn < MaxConns
    /\ \E variant \in Variants \cup {"none"} :
         /\ conn' = [name |-> ConnNames[nconn + 1], variant |-> variant, links |-> <<>>]
         /\ nconn' = nconn + 1
         /\ IF ExpandKind(variant) = "unsupported"
            THEN Fail("unsupported-conn")
            ELSE pc' = "links" /\ UNCHANGED ret
    /\ UNCHANGED <<servers, switches, cfgLinks, vmID, vms, linksDone, portVars, testVars, otherVars>>

\* one iteration of the loop over the connection's links
LinkStep ==
    /\ pc = "links"
    /\ Len(conn.links) < LinkLimit(conn.variant)
    /\ \E pair \in LinksOf(conn.variant) :
         LET r == LinkBothWays(vms, cfgLinks, pair, conn.name)
         IN  /\ conn' = [conn EXCEPT !.links = Append(@, pair)]
             /\ vms' = r.vms
             /\ IF r.err # ""
                THEN Fail(r.err) /\ UNCHANGED linksDone
                ELSE /\ linksDone' = linksDone \cup
                                        {[a |-> pair[1], b |-> pair[2], conn |-> conn.name]}
                     /\ UNCHANGED <<pc, ret>>
    /\ UNCHANGED <<servers, switches, cfgLinks, vmID, nconn, portVars, testVars, otherVars>>

\* the connection's links are exhausted (a variant with a single Link
\* field always holds one)
EndConn ==
    /\ pc = "links"
    /\ ExpandKind(conn.variant) = "list" \/ Len(conn.links) = 1
    /\ pc' = "conns"
    /\ UNCHANGED <<servers, switches, cfgLinks, vmID, vms, conn, nconn, linksDone, ret,
                   portVars, testVars, otherVars>>

\* data.Connection.All() is exhausted
ConnsDone ==
    /\ pc = "conns"
    /\ pc' = "gaps"
    /\ UNCHANGED <<servers, switches, cfgLinks, vmID, vms, conn, nconn, linksDone, ret,
                   portVars, testVars, otherVars>>

\* the greatest of a finite non-empty set of integers
SetMax(S) == CHOOSE m \in S : \A x \in S : x <= m

\* gap filling that starts at index 1
FilledInterfaces_from1(ifaces) ==
    LET maxDevID == SetMax({0} \cup DOMAIN ifaces)
    IN  [i \in (DOMAIN ifaces) \cup (1..maxDevID) |->
            IF i \in DOMAIN ifaces THEN ifaces[i] ELSE EmptyInterface]

\* the interfaces of one VM after "fill gaps in interfaces"
FilledInterfaces(ifaces) ==
    LET maxDevID == SetMax({0} \cup DOMAIN ifaces)
    IN  [i \in (DOMAIN ifaces) \cup (0..maxDevID) |->
            IF i \in DOMAIN ifaces THEN ifaces[i] ELSE EmptyInterface]

\* the gap-filling loop over mngr.vms, and return mngr, nil
FillGaps ==
    /\ pc = "gaps"
    /\ vms' = [n \in DOMAIN vms |->
                 [vms[n] EXCEPT !.Interfaces = FilledInterfaces(vms[n].Interfaces)]]
    /\ ret' = [nil |-> FALSE, mngr |-> vms', err |-> ""]
    /\ pc' = "done"
    /\ UNCHANGED <<servers, switches, cfgLinks, vmID, conn, nconn, linksDone, portVars, testVars, otherVars>>

--------------------------------------------------------------------------
(* Specifications *)

\* the parts of the state a specification does not exercise
PortIdle == pname = <<>> /\ pres = [id |-> 0, err |-> FALSE, called |-> FALSE]

VMIdle ==
    /\ servers = <<>> /\ switches = <<>> /\ cfgLinks = [p \in {} |-> ""]
    /\ pc = "idle" /\ vmID = 0 /\ vms = NoVMs /\ ret = NoRet
    /\ conn = NoConn /\ nconn = 0 /\ linksDone = {}

TestIdle ==
    /\ tcfg = [VPC |-> FALSE, VPCPing |-> 0, VPCIperf |-> 0, Ext |-> FALSE, ExtCurl |-> FALSE]
    /\ tservers = NoVMs /\ peering = <<>> /\ extPeering = <<>> /\ peered = {}
    /\ tpc = "idle" /\ ti = 0 /\ tj = 0 /\ totalTested = 0 /\ totalPassed = 0
    /\ lastPing = <<>> /\ evaluated = {} /\ extEvaluated = {}
    /\ failedChecks = 0 /\ tret = "pending"

IperfIdle ==
    /\ passedBefore = TRUE /\ probe = <<>> /\ passedFlag = TRUE
    /\ serverTask = "idle" /\ clientTask = "idle" /\ wg = 0 /\ ipc = "idle"
    /\ writers = {} /\ scored = "no"

UniIdle ==
    /\ agent = <<>> /\ agentDefect = FALSE /\ devices = <<>> /\ tconns = <<>>
    /\ attachments = <<>> /\ di = 0 /\ remoteCalls = 0

CreateIdle ==
    /\ cservers = <<>> /\ cconns = <<>> /\ csi = 0 /\ vpcIdx = 0 /\ netconfs = <<>>
    /\ ni = 0 /\ vpcStore = {} /\ attachStore = {} /\ configured = {}
    /\ cpc = "idle" /\ cret = "pending"

OtherIdle == IperfIdle /\ UniIdle /\ CreateIdle

\* NewVMManager on the wiring models with connections
InitVM ==
    /\ servers \in SeqsUpTo([name : ServerNames, type : ServerTypes], MaxServers)
    /\ switches \in SeqsUpTo(SwitchNames, MaxSwitches)
    /\ cfgLinks \in CfgLinkChoices
    /\ pc = "control" /\ vmID = 0 /\ vms = NoVMs /\ ret = NoRet
    /\ conn = NoConn /\ nconn = 0 /\ linksDone = {}
    /\ PortIdle /\ TestIdle /\ OtherIdle

NextVM ==
    \/ ControlPass \/ ServerPass \/ SwitchPass
    \/ StartConn \/ LinkStep \/ EndConn \/ ConnsDone \/ FillGaps

SpecVM == InitVM /\ [][NextVM]_vars

\* NewVMManager on the wiring models without connections
InitIDs ==
    /\ servers \in SeqsUpTo([name : IDServerNames, type : ServerTypes], MaxIDServers)
    /\ switches \in SeqsUpTo(IDSwitchNames, MaxIDSwitches)
    /\ cfgLinks = [p \in {} |-> ""]
    /\ pc = "control" /\ vmID = 0 /\ vms = NoVMs /\ ret = NoRet
    /\ conn = NoConn /\ nconn = 0 /\ linksDone = {}
    /\ PortIdle /\ TestIdle /\ OtherIdle

NextIDs == ControlPass \/ ServerPass \/ SwitchPass \/ ConnsDone \/ FillGaps

SpecIDs == InitIDs /\ [][NextIDs]_vars

--------------------------------------------------------------------------
(* Properties of the topology compiler *)

DeviceNames ==
    {servers[i].name : i \in 1..Len(servers)} \cup {switches[i] : i \in 1..Len(switches)}

ControlCount == Cardinality({i \in 1..Len(servers) : servers[i].type = ServerTypeControl})

DistinctNames ==
    /\ \A i, j \in 1..Len(servers) : i # j => servers[i].name # servers[j].name
    /\ \A i, j \in 1..Len(switches) : i # j => switches[i] # switches[j]
    /\ \A i \in 1..Len(servers), j \in 1..Len(switches) : servers[i].name # switches[j]

\* the devices in the order the ID pass is to number them
IDOrder ==
    ServerNamesOfType(servers, ServerTypeControl)
        \o ServerNamesOfType(servers, ServerTypeDefault) \o switches

IDPassOver == pc \in {"conns", "links", "gaps", "done"}

\* C1: with exactly one control device and pairwise distinct device names the
\* ID pass does not fail, and it numbers the devices 0, 1, 2, ... without
\* gaps or repeats: the control device 0, then the plain servers in the
\* wiring model's order, then the switches in the wiring model's order.
C1_ContiguousIDs ==
    (ControlCount = 1 /\ DistinctNames) =>
        /\ (pc = "done" => ~ret.nil)
        /\ (IDPassOver =>
              /\ DOMAIN vms = DeviceNames
              /\ {vms[n].ID : n \in DOMAIN vms} = 0..(Len(servers) + Len(switches) - 1)
              /\ \A n, m \in DOMAIN vms : vms[n].ID = vms[m].ID => n = m
              /\ \A i \in 1..Len(IDOrder) : vms[IDOrder[i]].ID = i - 1
              /\ \A n \in DOMAIN vms : vms[n].Type = VMTypeControl => vms[n].ID = 0
              /\ \A n, m \in DOMAIN vms :
                   vms[n].Type = VMTypeServer /\ vms[m].Type = VMTypeSwitchVS
                       => vms[n].ID < vms[m].ID)

\* C1's case: a compiled wiring model whose control device is not the first
\* server, with two plain servers around it and two switches
C1_Witness ==
    /\ pc = "done" /\ ~ret.nil
    /\ Len(servers) = 3 /\ Len(switches) = 2
    /\ servers[1].type = ServerTypeDefault
    /\ servers[2].type = ServerTypeControl
    /\ servers[3].type = ServerTypeDefault

\* the interface index of a port
PortIndex(p) == portIdForName(p.port).id

Compiled == pc = "done" /\ ~ret.nil

\* C2: after a successful compilation every link of every connection has an
\* interface on both of its endpoints' VMs, at the ports' indices, carrying
\* the connection's name; two software transports are paired: each one's own
\* UDP endpoint (derived from its VM's ID and its index) is the other's peer.
C2_LinksSymmetric ==
    Compiled =>
        \A l \in linksDone :
            l.b # NilPort /\ l.a.dev \in DOMAIN ret.mngr /\ l.b.dev \in DOMAIN ret.mngr =>
            LET A == ret.mngr[l.a.dev]
                B == ret.mngr[l.b.dev]
                ia == PortIndex(l.a)
                ib == PortIndex(l.b)
            IN  /\ ia \in DOMAIN A.Interfaces
                /\ ib \in DOMAIN B.Interfaces
                /\ A.Interfaces[ia].Connection = l.conn
                /\ B.Interfaces[ib].Connection = l.conn
                /\ (A.Interfaces[ia].Netdev.kind = "socket"
                    /\ B.Interfaces[ib].Netdev.kind = "socket") =>
                      /\ A.Interfaces[ia].Netdev.udp =
                            IF_PORT_BASE + A.ID * IF_PORT_VM_ID_MULT + ia * IF_PORT_PORT_ID_MULT
                      /\ B.Interfaces[ib].Netdev.udp =
                            IF_PORT_BASE + B.ID * IF_PORT_VM_ID_MULT + ib * IF_PORT_PORT_ID_MULT
                      /\ A.Interfaces[ia].Netdev.localaddr = <<B.Interfaces[ib].Netdev.udp>>
                      /\ B.Interfaces[ib].Netdev.localaddr = <<A.Interfaces[ia].Netdev.udp>>

\* C2's case: a compiled registry with a link between two different VMs, both
\* ends software transports
C2_Witness ==
    /\ Compiled
    /\ \E l \in linksDone :
         /\ l.a.dev # l.b.dev
         /\ ret.mngr[l.a.dev].Interfaces[PortIndex(l.a)].Netdev.kind = "socket"
         /\ ret.mngr[l.b.dev].Interfaces[PortIndex(l.b)].Netdev.kind = "socket"

LinkErrors == {"nil-local", "no-device", "port-name", "no-dest-device", "dup-iface", "no-pci"}

\* the links handed to AddLink so far: those added, and the one that failed
AttemptedLinks ==
    {[a |-> l.a, b |-> l.b, conn |-> l.conn, failed |-> FALSE] : l \in linksDone}
    \cup IF pc = "done" /\ ret.err \in LinkErrors
         THEN {[a |-> conn.links[Len(conn.links)][1], b |-> conn.links[Len(conn.links)][2],
                conn |-> conn.name, failed |-> TRUE]}
         ELSE {}

\* every port a link names, once for each time it is named
Endpoints ==
    {[link |-> l, side |-> 1, port |-> l.a] : l \in AttemptedLinks}
    \cup {[link |-> l, side |-> 2, port |-> l.b] : l \in {k \in AttemptedLinks : k.b # NilPort}}

ManagedNames ==
    {servers[i].name : i \in 1..Len(servers)}

\* the defects of a wiring model that the compiler is to reject
DefectControl == ControlCount # 1
DefectDuplicateName == ~DistinctNames
DefectUnknownDevice == \E e \in Endpoints : e.port.dev \notin DeviceNames
DefectPortName == \E e \in Endpoints : portIdForName(e.port.port).err
DefectSameIndex ==
    \/ \E e, f \in Endpoints :
         /\ e # f
         /\ e.port.dev = f.port.dev
         /\ e.port.dev \in DeviceNames
         /\ ~portIdForName(e.port.port).err /\ ~portIdForName(f.port.port).err
         /\ PortIndex(e.port) = PortIndex(f.port)
    \/ \E e \in Endpoints :
         /\ e.port.dev \in ManagedNames
         /\ ~portIdForName(e.port.port).err
         /\ PortIndex(e.port) = 0

\* C3: a wiring model with zero or several control devices, a repeated device
\* name, a link endpoint on an unknown device, two port assignments on one
\* index of one VM, or a port name that yields no index, makes NewVMManager
\* return an error and a nil manager; a manager is returned only with no error.
C3_DefectsRejected ==
    pc = "done" =>
        /\ ret.nil <=> ret.err # ""
        /\ ~ret.nil => ret.mngr = vms
        /\ (DefectControl \/ DefectDuplicateName \/ DefectUnknownDevice
            \/ DefectPortName \/ DefectSameIndex) => ret.nil /\ ret.err # ""

\* C3's case: a second assignment of an index, on a server whose index 0
\* holds the management interface, is rejected
C3_Witness ==
    /\ pc = "done" /\ ret.nil /\ ret.err = "dup-iface"
    /\ DefectSameIndex
    /\ ~DefectControl /\ ~DefectDuplicateName /\ ~DefectUnknownDevice /\ ~DefectPortName
    /\ \E e \in Endpoints : e.link.failed /\ e.port.dev \in ManagedNames /\ PortIndex(e.port) = 0

\* the switch port of the NAT connection being expanded
NATPort == conn.links[1][1]

\* AddLink(switch port, nil) has recorded the NAT connection's interface
NATAdded ==
    /\ conn.variant = "NAT" /\ Len(conn.links) = 1
    /\ NATPort \notin DOMAIN cfgLinks
    /\ NATPort.dev \in DOMAIN vms
    /\ vms[NATPort.dev].Type = VMTypeSwitchVS
    /\ ~portIdForName(NATPort.port).err
    /\ PortIndex(NATPort) \in DOMAIN vms[NATPort.dev].Interfaces
    /\ vms[NATPort.dev].Interfaces[PortIndex(NATPort)].Connection = conn.name

\* C4: a NAT connection whose switch exists and whose port index is free
\* compiles: the absent remote side is skipped, and exactly one interface is
\* recorded for the connection, on the switch, a software transport with a
\* local UDP endpoint and no paired remote endpoint.
C4_NATCompiles ==
    (pc = "done" /\ NATAdded) =>
        /\ ~ret.nil
        /\ \A n \in DOMAIN ret.mngr : \A i \in DOMAIN ret.mngr[n].Interfaces :
             ret.mngr[n].Interfaces[i].Connection = conn.name =>
                /\ n = NATPort.dev /\ i = PortIndex(NATPort)
                /\ ret.mngr[n].Interfaces[i].Netdev.kind = "socket"
                /\ ret.mngr[n].Interfaces[i].Netdev.localaddr = <<>>

\* the indices assigned on device n: the synthesized management interface of
\* a control node or server, and every port of n that a link names
Assigned(n) ==
    (IF n \in ManagedNames THEN {0} ELSE {})
    \cup {PortIndex(l.a) : l \in {k \in linksDone : k.a.dev = n}}
    \cup {PortIndex(l.b) : l \in {k \in linksDone : k.b.dev = n}}

\* C5: after a successful compilation the keys of every VM's Interfaces are
\* exactly 0..m, m the largest index assigned to it (0 if none was); the
\* indices in that range that were not assigned hold placeholders, and the
\* assigned entries are still the assigned ones.
C5_DenseInterfaces ==
    Compiled =>
        \A n \in DOMAIN ret.mngr :
            LET used == Assigned(n)
                m == IF used = {} THEN 0 ELSE SetMax(used)
                ifaces == ret.mngr[n].Interfaces
            IN  /\ DOMAIN ifaces = 0..m
                /\ \A i \in (0..m) \ used : ifaces[i] = EmptyInterface
                /\ \A i \in used \cap DOMAIN ifaces : ifaces[i].Connection # ""

--------------------------------------------------------------------------
(* portIdForName on its own *)

MaxSuffixLen == 2

\* what may follow a prefix: digits, a sign, a letter, a slash
SuffixChars == DigitSet \cup {"-", "x", "/"}

InputPrefixes ==
    {PfxManagement0, PfxEthernet, PfxPort, PfxEnp2s,
     <<"w", "e", "i", "r", "d">>, <<"M", "a", "n", "a", "g", "e", "m", "e", "n", "t">>, <<>>}

PortNameInputs == {p \o x : p \in InputPrefixes, x \in SeqsUpTo(SuffixChars, MaxSuffixLen)}

InitPort ==
    /\ pname \in PortNameInputs
    /\ pres = [id |-> 0, err |-> FALSE, called |-> FALSE]
    /\ VMIdle /\ TestIdle /\ OtherIdle

\* idx, err := portIdForName(name)
CallPortIdForName ==
    /\ ~pres.called
    /\ pres' = [id |-> portIdForName(pname).id, err |-> portIdForName(pname).err,
                called |-> TRUE]
    /\ UNCHANGED <<pname, vmVars, testVars, otherVars>>

NextPort == CallPortIdForName

SpecPort == InitPort /\ [][NextPort]_vars

\* the decimal numeral of a natural number
RECURSIVE Itoa(_)
Itoa(n) == IF n < 10 THEN <<Digits[n + 1]>> ELSE Itoa(n \div 10) \o <<Digits[(n % 10) + 1]>>

RECURSIVE Pow10(_)
Pow10(k) == IF k = 0 THEN 1 ELSE 10 * Pow10(k - 1)

\* the numbers whose numeral fits the suffix
SuffixNumbers == 0..(Pow10(MaxSuffixLen) - 1)

\* a numeral: digits, at least one, after an optional sign
IsNumeral(x) ==
    LET body == IF x # <<>> /\ Head(x) \in {"-", "+"} THEN Tail(x) ELSE x
    IN  body # <<>> /\ \A i \in 1..Len(body) : body[i] \in DigitSet

NumberedPrefixes == {PfxEthernet, PfxPort, PfxEnp2s}

--------------------------------------------------------------------------
(* The connectivity verification engine: Service.TestServerConnectivity,  *)
(* from the loop over the VPC peerings to the final verdict               *)

MaxTestServers == 3
MaxPeerings == 1
MaxExtPeerings == 2

\* strings.Contains: sub occurs in s at some offset
Contains(s, sub) ==
    \E k \in 0..(Len(s) - Len(sub)) : SubSeq(s, k + 1, k + Len(sub)) = sub

\* "0 received, 100% packet loss"
PacketLossMarker ==
    <<"0", " ", "r", "e", "c", "e", "i", "v", "e", "d", ",", " ", "1", "0",
      "0", "%", " ", "p", "a", "c", "k", "e", "t", " ", "l", "o", "s", "s">>

\* "302 Moved"
MovedMarker == <<"3", "0", "2", " ", "M", "o", "v", "e", "d">>

\* what a ping may print: nothing, a total loss, an error of ping itself
PingOutputs ==
    << <<>>,
       <<"1", " ", "p", "a", "c", "k", "e", "t", "s", " ", "t", "r", "a",
         "n", "s", "m", "i", "t", "t", "e", "d", ",", " ", "0", " ", "r",
         "e", "c", "e", "i", "v", "e", "d", ",", " ", "1", "0", "0", "%",
         " ", "p", "a", "c", "k", "e", "t", " ", "l", "o", "s", "s">>,
       <<"c", "o", "n", "n", "e", "c", "t", ":", " ", "N", "e", "t", "w",
         "o", "r", "k", " ", "i", "s", " ", "u", "n", "r", "e", "a", "c",
         "h", "a", "b", "l", "e">> >>

\* what curl may print: nothing, the redirect, another page
CurlOutputs ==
    << <<>>,
       <<"<", "H", "1", ">", "3", "0", "2", " ", "M", "o", "v", "e", "d",
         "<", "/", "H", "1", ">">>,
       <<"<", "H", "1", ">", "4", "0", "4", " ", "N", "o", "t", " ", "F",
         "o", "u", "n", "d", "<", "/", "H", "1", ">">> >>

TestNames == <<"s1", "s2", "s3", "s4">>

VPCNames == {"vpc-1", "vpc-2"}

ExternalNames == {"ext-1", "ext-2"}

SubnetLists == {<<>>, <<"default">>}

PrefixLists == {<<>>, <<"10.1.0.0/16">>, <<"10.1.0.0/16", "0.0.0.0/0">>}

VPCPeeringNames == <<"peering-1", "peering-2", "peering-3">>

ExtPeeringNames == <<"external-1", "external-2", "external-3">>

\* a nil *vpcapi.ExternalPeering
NoPeering == ""

\* the Server record as serverLoop leaves it in the map
NewServer(name, vpc) ==
    [Name |-> name, VPC |-> vpc, Subnet |-> "default", VPCPeers |-> <<>>,
     Externals |-> <<>>, ExternalPeering |-> NoPeering]

Range(s) == {s[k] : k \in 1..Len(s)}

\* the orders in which a range over a map may visit its keys
Orderings(S) ==
    {f \in [1..Cardinality(S) -> S] : \A a, b \in 1..Cardinality(S) : f[a] = f[b] => a = b}

\* the order of Go strings on the server names
Rank(n) == CHOOSE k \in 1..Len(TestNames) : TestNames[k] = n

RECURSIVE Insert(_, _)
Insert(x, s) ==
    IF s = <<>> THEN <<x>>
    ELSE IF Rank(x) <= Rank(Head(s)) THEN <<x>> \o s
    ELSE <<Head(s)>> \o Insert(x, Tail(s))

\* slices.Sort
RECURSIVE Sort(_)
Sort(s) == IF s = <<>> THEN <<>> ELSE Insert(Head(s), Sort(Tail(s)))

\* sortedServer: the keys of the map, which are distinct, in ascending order,
\* whatever order the range over the map appended them in
SortedServer(ts) == SelectSeq(TestNames, LAMBDA n : n \in DOMAIN ts)

\* one half of the body of the loops over vpc1Servers and vpc2Servers
AddPeer(ts, a, b) ==
    IF b \in Range(ts[a].VPCPeers) THEN ts
    ELSE [ts EXCEPT ![a].VPCPeers = Append(@, b)]

\* the pairs (server1, server2) in the order the nested loops visit them
PairSeq(l1, l2) ==
    [k \in 1..(Len(l1) * Len(l2)) |->
        <<l1[((k - 1) \div Len(l2)) + 1], l2[((k - 1) % Len(l2)) + 1]>>]

RECURSIVE PeerEach_oneWay(_, _)
PeerEach_oneWay(ts, pairs) ==
    IF pairs = <<>> THEN ts
    ELSE PeerEach_oneWay(AddPeer(ts, Head(pairs)[1], Head(pairs)[2]), Tail(pairs))

\* the nested loops over vpc1Servers and vpc2Servers
RECURSIVE PeerEach(_, _)
PeerEach(ts, pairs) ==
    IF pairs = <<>> THEN ts
    ELSE PeerEach(AddPeer(AddPeer(ts, Head(pairs)[1], Head(pairs)[2]),
                          Head(pairs)[2], Head(pairs)[1]),
                  Tail(pairs))

IncludeDefault_nonEmpty(prefixes) == prefixes # <<>>

\* the scan of peering.Spec.Permit.External.Prefixes
IncludeDefault(prefixes) == \E k \in 1..Len(prefixes) : prefixes[k] = "0.0.0.0/0"

\* the loop over subnets for one server of the peering's VPC
RECURSIVE BindExternal(_, _, _)
BindExternal(server, item, subnets) ==
    IF subnets = <<>> THEN [server |-> server, err |-> FALSE]
    ELSE IF server.Subnet # Head(subnets)
    THEN BindExternal(server, item, Tail(subnets))
    ELSE IF item.external \in Range(server.Externals)
    THEN BindExternal(server, item, Tail(subnets))
    ELSE IF server.ExternalPeering # NoPeering
    THEN [server |-> server, err |-> TRUE]
    ELSE BindExternal([server EXCEPT !.ExternalPeering = item.name,
                                     !.Externals = Append(@, item.external)],
                      item, Tail(subnets))

\* the if-chain that classifies a ping: the value of passed after it
PingPassed(peerConnected, err, out) ==
    IF peerConnected /\ err THEN FALSE
    ELSE IF ~peerConnected /\ ~err THEN FALSE
    ELSE IF ~peerConnected /\ err /\ Len(out) > 0 /\ ~Contains(out, PacketLossMarker)
    THEN FALSE
    ELSE TRUE

\* a float64 bit rate, written g * 10^9 + r to stay within TLC's integers
Bps(g, r) == [g |-> g, r |-> r]

BelowFloor_inclusive(bps) == bps.g < 8 \/ (bps.g = 8 /\ bps.r <= 500000000)

\* report.End.SumSent.BitsPerSecond < 8500000000
BelowFloor(bps) == bps.g < 8 \/ (bps.g = 8 /\ bps.r < 500000000)

IperfOutcome(se, ce, pa, b) ==
    [serverErr |-> se, clientErr |-> ce, parsed |-> pa, bps |-> b]

\* how the two iperf3 sessions of a pair may end: a report at, above or just
\* below the floor, a failed server, a failed client, an unreadable report
IperfOutcomes ==
    {IperfOutcome(FALSE, FALSE, TRUE, Bps(8, 500000000)),
     IperfOutcome(FALSE, FALSE, TRUE, Bps(9, 400000000)),
     IperfOutcome(FALSE, FALSE, TRUE, Bps(8, 499999999)),
     IperfOutcome(TRUE, FALSE, TRUE, Bps(9, 400000000)),
     IperfOutcome(FALSE, TRUE, FALSE, Bps(0, 0)),
     IperfOutcome(FALSE, FALSE, FALSE, Bps(0, 0))}

\* the value of passed after wg.Wait(): both goroutines only ever clear it
IperfPassed(passed, o) ==
    /\ passed
    /\ ~o.serverErr
    /\ ~o.clientErr
    /\ o.parsed
    /\ ~BelowFloor(o.bps)

\* the egress check passes on a clean ssh whose output holds the marker
CurlPassed(err, out) == ~err /\ Contains(out, MovedMarker)

ExitStatus_allFailed(tested, passed) ==
    IF tested > 0 /\ passed = 0 THEN "exit1" ELSE "nil"

\* the verdict: os.Exit(1) or return nil
ExitStatus(tested, passed) ==
    IF tested - passed > 0 THEN "exit1" ELSE "nil"

AllConfigs ==
    [VPC : BOOLEAN, VPCPing : {0, 1}, VPCIperf : {0, 1}, Ext : BOOLEAN,
     ExtCurl : BOOLEAN]

\* the configurations, a switched-off family keeping its zero values
TestConfigs ==
    {c \in AllConfigs : /\ ~c.VPC => (c.VPCPing = 0 /\ c.VPCIperf = 0)
                        /\ ~c.Ext => ~c.ExtCurl}

\* the order of the VPC names
VPCRank(v) == IF v = "vpc-1" THEN 1 ELSE 2

\* the maps serverLoop may leave: the first n names, each in some VPC; the
\* names being interchangeable, the VPCs do not decrease along them
TestServerMaps ==
    UNION {{[s \in {TestNames[k] : k \in 1..n} |-> NewServer(s, f[Rank(s)])] :
               f \in {g \in [1..n -> VPCNames] :
                         \A a, b \in 1..n : a <= b => VPCRank(g[a]) <= VPCRank(g[b])}} :
           n \in 0..MaxTestServers}

\* the VPC peering objects the list may hold at position k
VPCPeeringChoices(k) ==
    {[name |-> VPCPeeringNames[k], vpc1 |-> p[1], vpc2 |-> p[2], valid |-> TRUE] :
        p \in {q \in VPCNames \X VPCNames : q[1] # q[2]}}
    \cup {[name |-> VPCPeeringNames[k], vpc1 |-> "", vpc2 |-> "", valid |-> FALSE]}

\* the external peering objects the list may hold at position k
ExtPeeringChoices(k) ==
    {[name |-> ExtPeeringNames[k], vpc |-> v, subnets |-> sn, external |-> e,
      prefixes |-> pf] :
        v \in VPCNames, sn \in SubnetLists, e \in ExternalNames, pf \in PrefixLists}

NoPing == <<>>

\* what svc.ssh may return for a ping: an error or none, and an output
PingResults == [err : BOOLEAN, out : 1..Len(PingOutputs)]

\* a return with an error
TestFatal == tret' = "error" /\ tpc' = "done"

\* no item: before the first iteration of a loop, and after the loop
NoItem == <<>>

\* how many items a loop has ranged over, its loop variable being item
Ranged(names, item) ==
    IF item = NoItem THEN 0 ELSE CHOOSE k \in 1..Len(names) : names[k] = item.name

\* one iteration of the loop over vpcPeeringList.Items
VPCPeeringStep ==
    /\ tpc = "peerings"
    /\ Ranged(VPCPeeringNames, peering) < MaxPeerings
    /\ \E item \in VPCPeeringChoices(Ranged(VPCPeeringNames, peering) + 1),
          order \in Orderings(DOMAIN tservers) :
         LET vpc1Servers == SelectSeq(order, LAMBDA s : tservers[s].VPC = item.vpc1)
             vpc2Servers == SelectSeq(order, LAMBDA s : tservers[s].VPC = item.vpc2)
         IN /\ peering' = item
            /\ IF ~item.valid \/ Len(vpc1Servers) < 1 \/ Len(vpc2Servers) < 1
               THEN TestFatal /\ UNCHANGED <<tservers, peered>>
               ELSE /\ tservers' = PeerEach(tservers, PairSeq(vpc1Servers, vpc2Servers))
                    /\ peered' = peered \cup {<<item.vpc1, item.vpc2>>}
                    /\ UNCHANGED <<tpc, tret>>
    /\ UNCHANGED <<tcfg, extPeering, ti, tj, totalTested, totalPassed, lastPing,
                   evaluated, extEvaluated, failedChecks>>
    /\ UNCHANGED <<portVars, vmVars, otherVars>>

\* the loop over vpcPeeringList.Items ends
VPCPeeringsDone ==
    /\ tpc = "peerings"
    /\ tpc' = "extpeerings"
    /\ peering' = NoItem
    /\ UNCHANGED <<tcfg, tservers, extPeering, peered, ti, tj, totalTested,
                   totalPassed, lastPing, evaluated, extEvaluated, failedChecks, tret>>
    /\ UNCHANGED <<portVars, vmVars, otherVars>>

\* one iteration of the loop over externalPeeringList.Items
ExtPeeringStep ==
    /\ tpc = "extpeerings"
    /\ Ranged(ExtPeeringNames, extPeering) < MaxExtPeerings
    /\ \E item \in ExtPeeringChoices(Ranged(ExtPeeringNames, extPeering) + 1) :
         LET bound == [s \in DOMAIN tservers |->
                          IF tservers[s].VPC # item.vpc
                          THEN [server |-> tservers[s], err |-> FALSE]
                          ELSE BindExternal(tservers[s], item, item.subnets)]
         IN /\ extPeering' = item
            /\ IF ~IncludeDefault(item.prefixes)
                  \/ \E s \in DOMAIN tservers : bound[s].err
               THEN TestFatal /\ UNCHANGED tservers
               ELSE /\ tservers' = [s \in DOMAIN tservers |-> bound[s].server]
                    /\ UNCHANGED <<tpc, tret>>
    /\ UNCHANGED <<tcfg, peering, peered, ti, tj, totalTested, totalPassed, lastPing,
                   evaluated, extEvaluated, failedChecks>>
    /\ UNCHANGED <<portVars, vmVars, otherVars>>

\* the loop over externalPeeringList.Items ends; the counters are declared
ExtPeeringsDone ==
    /\ tpc = "extpeerings"
    /\ tpc' = "servers" /\ ti' = 1 /\ totalTested' = 0 /\ totalPassed' = 0
    /\ extPeering' = NoItem
    /\ UNCHANGED <<tcfg, tservers, peering, peered, tj, lastPing,
                   evaluated, extEvaluated, failedChecks, tret>>
    /\ UNCHANGED <<portVars, vmVars, otherVars>>

\* one iteration of the loop over sortedServer: the peer list is sorted
ServerStep ==
    /\ tpc = "servers"
    /\ ti <= Len(SortedServer(tservers))
    /\ LET name == SortedServer(tservers)[ti]
       IN tservers' = [tservers EXCEPT ![name].VPCPeers = Sort(@)]
    /\ tj' = 1
    /\ tpc' = IF tcfg.VPC THEN "pairs" ELSE "externals"
    /\ UNCHANGED <<tcfg, peering, extPeering, peered, ti, totalTested, totalPassed,
                   lastPing, evaluated, extEvaluated, failedChecks, tret>>
    /\ UNCHANGED <<portVars, vmVars, otherVars>>

\* the inner loop leaving at the first pair that fails
PairStep_stopOnFail ==
    /\ tpc = "pairs"
    /\ tj <= Len(SortedServer(tservers))
    /\ LET sortedServer == SortedServer(tservers)
           name == sortedServer[ti]
           vpcPeer == sortedServer[tj]
           peerConnected == vpcPeer \in Range(tservers[name].VPCPeers)
       IN IF name = vpcPeer
          THEN /\ tj' = tj + 1
               /\ UNCHANGED <<totalTested, totalPassed, lastPing, evaluated,
                              failedChecks>>
          ELSE \E ping \in IF tcfg.VPCPing > 0 THEN PingResults ELSE {NoPing},
                  io \in IF peerConnected /\ tcfg.VPCIperf > 0
                         THEN IperfOutcomes ELSE {NoPing} :
                 LET afterPing == IF tcfg.VPCPing > 0
                                  THEN PingPassed(peerConnected, ping.err,
                                                  PingOutputs[ping.out])
                                  ELSE TRUE
                     passed == IF peerConnected /\ tcfg.VPCIperf > 0
                               THEN IperfPassed(afterPing, io)
                               ELSE afterPing
                 IN /\ totalTested' = totalTested + 1
                    /\ lastPing' = IF tcfg.VPCPing > 0
                                   THEN [from |-> name, to |-> vpcPeer,
                                         expected |-> peerConnected,
                                         err |-> ping.err, out |-> ping.out,
                                         passed |-> afterPing]
                                   ELSE lastPing
                    /\ totalPassed' = IF passed THEN totalPassed + 1 ELSE totalPassed
                    /\ failedChecks' = IF passed THEN failedChecks ELSE failedChecks + 1
                    /\ evaluated' = evaluated \cup {<<name, vpcPeer>>}
                    /\ tj' = IF passed THEN tj + 1 ELSE Len(sortedServer) + 1
    /\ UNCHANGED <<tcfg, tservers, peering, extPeering, peered, tpc, ti, extEvaluated,
                   tret>>
    /\ UNCHANGED <<portVars, vmVars, otherVars>>

\* one iteration of the inner loop over sortedServer: a pair is checked
PairStep ==
    /\ tpc = "pairs"
    /\ tj <= Len(SortedServer(tservers))
    /\ LET sortedServer == SortedServer(tservers)
           name == sortedServer[ti]
           vpcPeer == sortedServer[tj]
           peerConnected == vpcPeer \in Range(tservers[name].VPCPeers)
       IN IF name = vpcPeer
          THEN /\ tj' = tj + 1
               /\ UNCHANGED <<totalTested, totalPassed, lastPing, evaluated,
                              failedChecks>>
          ELSE \E ping \in IF tcfg.VPCPing > 0 THEN PingResults ELSE {NoPing},
                  io \in IF peerConnected /\ tcfg.VPCIperf > 0
                         THEN IperfOutcomes ELSE {NoPing} :
                 LET afterPing == IF tcfg.VPCPing > 0
                                  THEN PingPassed(peerConnected, ping.err,
                                                  PingOutputs[ping.out])
                                  ELSE TRUE
                     passed == IF peerConnected /\ tcfg.VPCIperf > 0
                               THEN IperfPassed(afterPing, io)
                               ELSE afterPing
                 IN /\ totalTested' = totalTested + 1
                    /\ lastPing' = IF tcfg.VPCPing > 0
                                   THEN [from |-> name, to |-> vpcPeer,
                                         expected |-> peerConnected,
                                         err |-> ping.err, out |-> ping.out,
                                         passed |-> afterPing]
                                   ELSE lastPing
                    /\ totalPassed' = IF passed THEN totalPassed + 1 ELSE totalPassed
                    /\ failedChecks' = IF passed THEN failedChecks ELSE failedChecks + 1
                    /\ evaluated' = evaluated \cup {<<name, vpcPeer>>}
                    /\ tj' = tj + 1
    /\ UNCHANGED <<tcfg, tservers, peering, extPeering, peered, tpc, ti, extEvaluated,
                   tret>>
    /\ UNCHANGED <<portVars, vmVars, otherVars>>

\* the inner loop over sortedServer ends
PairsDone ==
    /\ tpc = "pairs"
    /\ tj > Len(SortedServer(tservers))
    /\ tpc' = "externals" /\ tj' = 1
    /\ UNCHANGED <<tcfg, tservers, peering, extPeering, peered, ti, totalTested,
                   totalPassed, lastPing, evaluated, extEvaluated, failedChecks, tret>>
    /\ UNCHANGED <<portVars, vmVars, otherVars>>

\* one iteration of the loop over server.Externals
ExternalStep ==
    /\ tpc = "externals"
    /\ tcfg.Ext
    /\ LET name == SortedServer(tservers)[ti]
           server == tservers[name]
       IN /\ tj <= Len(server.Externals)
          /\ IF tcfg.ExtCurl
             THEN \E err \in BOOLEAN, out \in 1..Len(CurlOutputs) :
                    LET passed == CurlPassed(err, CurlOutputs[out])
                    IN /\ totalTested' = totalTested + 1
                       /\ totalPassed' = IF passed THEN totalPassed + 1 ELSE totalPassed
                       /\ failedChecks' = IF passed THEN failedChecks
                                          ELSE failedChecks + 1
                       /\ extEvaluated' = extEvaluated \cup {<<name, server.Externals[tj]>>}
             ELSE UNCHANGED <<totalTested, totalPassed, failedChecks, extEvaluated>>
    /\ tj' = tj + 1
    /\ UNCHANGED <<tcfg, tservers, peering, extPeering, peered, tpc, ti, lastPing,
                   evaluated, tret>>
    /\ UNCHANGED <<portVars, vmVars, otherVars>>

\* the body of the outer loop ends: the egress family is off or exhausted
NextServer ==
    /\ tpc = "externals"
    /\ \/ ~tcfg.Ext
       \/ tj > Len(tservers[SortedServer(tservers)[ti]].Externals)
    /\ tpc' = "servers" /\ ti' = ti + 1
    /\ UNCHANGED <<tcfg, tservers, peering, extPeering, peered, tj, totalTested,
                   totalPassed, lastPing, evaluated, extEvaluated, failedChecks, tret>>
    /\ UNCHANGED <<portVars, vmVars, otherVars>>

\* the outer loop ends: the verdict
Finish ==
    /\ tpc = "servers"
    /\ ti > Len(SortedServer(tservers))
    /\ tret' = ExitStatus(totalTested, totalPassed)
    /\ tpc' = "done"
    /\ UNCHANGED <<tcfg, tservers, peering, extPeering, peered, ti, tj, totalTested,
                   totalPassed, lastPing, evaluated, extEvaluated, failedChecks>>
    /\ UNCHANGED <<portVars, vmVars, otherVars>>

InitTest ==
    /\ tcfg \in TestConfigs
    /\ tservers \in TestServerMaps
    /\ peering = NoItem /\ extPeering = NoItem /\ peered = {}
    /\ tpc = "peerings" /\ ti = 0 /\ tj = 0 /\ totalTested = 0 /\ totalPassed = 0
    /\ lastPing = NoPing /\ evaluated = {} /\ extEvaluated = {}
    /\ failedChecks = 0 /\ tret = "pending"
    /\ PortIdle /\ VMIdle /\ OtherIdle

NextTest ==
    \/ VPCPeeringStep \/ VPCPeeringsDone \/ ExtPeeringStep \/ ExtPeeringsDone
    \/ ServerStep \/ PairStep \/ PairsDone \/ ExternalStep \/ NextServer \/ Finish

SpecTest == InitTest /\ [][NextTest]_vars

--------------------------------------------------------------------------
(* Properties of the connectivity verification engine *)

\* C7: with the ping check enabled, the ping verdict of every ordered pair
\* follows the decision table: expected and success passes; expected and
\* failure fails; not expected and success fails; not expected and failure
\* passes only if the output contains "0 received, 100% packet loss"; not
\* expected and failure with any output lacking that marker fails.
C7_PingTable ==
    lastPing # NoPing =>
        LET lost == Contains(PingOutputs[lastPing.out], PacketLossMarker)
        IN /\ (lastPing.expected /\ ~lastPing.err) => lastPing.passed
           /\ (lastPing.expected /\ lastPing.err) => ~lastPing.passed
           /\ (~lastPing.expected /\ ~lastPing.err) => ~lastPing.passed
           /\ (~lastPing.expected /\ lastPing.err /\ lost) => lastPing.passed
           /\ (~lastPing.expected /\ lastPing.err /\ ~lost) => ~lastPing.passed

\* the VPC peerings applied so far that name the VPCs of a and b as their two
\* participants
Covering(a, b) ==
    {p \in peered : \/ (tservers[a].VPC = p[1] /\ tservers[b].VPC = p[2])
                    \/ (tservers[a].VPC = p[2] /\ tservers[b].VPC = p[1])}

NoDuplicates(s) == \A k, l \in 1..Len(s) : s[k] = s[l] => k = l

Verdict == tpc = "done" /\ tret \in {"exit1", "nil"}

\* C9: at the end of Phase D the process exits with the failure status if
\* and only if at least one executed check failed, which is when total-tested
\* minus total-passed is greater than 0; when every executed check passed it
\* returns normally; and total-passed is at most total-tested at every point.
C9_ExitStatus ==
    /\ totalPassed <= totalTested
    /\ totalTested - totalPassed = failedChecks
    /\ Verdict => /\ (tret = "exit1") <=> (failedChecks > 0)
                  /\ (tret = "exit1") <=> (totalTested - totalPassed > 0)
                  /\ (failedChecks = 0) => (tret = "nil")

\* a run that ends with the failure status although some checks passed
C9_Witness ==
    /\ Verdict /\ tret = "exit1"
    /\ totalPassed > 0 /\ failedChecks > 0 /\ totalTested > totalPassed

\* the ordered pairs of distinct servers of the universe
OrderedPairs ==
    {q \in (DOMAIN tservers) \X (DOMAIN tservers) : q[1] # q[2]}

\* every server's permitted externals
PermittedExternals ==
    UNION {{<<s, e>> : e \in Range(tservers[s].Externals)} : s \in DOMAIN tservers}

\* C10: once Phase D has started no check-level failure stops the run: the
\* run never ends with an error after a check has executed, and when the
\* verdict is produced, with VPC checks enabled all n*(n-1) ordered pairs of
\* the n servers have been evaluated and with egress checks enabled every
\* server's permitted externals have been evaluated.
C10_FullMatrix ==
    /\ tret = "error" =>
         (totalTested = 0 /\ evaluated = {} /\ extEvaluated = {} /\ tpc = "done")
    /\ tret \in {"exit1", "nil"} => tpc = "done"
    /\ Verdict =>
         /\ tcfg.VPC =>
              /\ evaluated = OrderedPairs
              /\ Cardinality(evaluated) =
                   Cardinality(DOMAIN tservers) * (Cardinality(DOMAIN tservers) - 1)
         /\ (tcfg.Ext /\ tcfg.ExtCurl) => extEvaluated = PermittedExternals

\* a verdict after the first pair failed: the other five of the six pairs and
\* an egress check were evaluated all the same
C10_Witness ==
    /\ Verdict
    /\ tcfg.VPC /\ tcfg.VPCPing > 0 /\ tcfg.Ext /\ tcfg.ExtCurl
    /\ Cardinality(DOMAIN tservers) = 3
    /\ Cardinality(evaluated) = 6
    /\ extEvaluated # {}
    /\ failedChecks = totalTested

\* the check categories the evaluated pairs were evaluated under: the ping
\* of every pair when the ping count is positive, the throughput check of
\* every expected pair when the throughput duration is positive
CategoriesRun ==
    Cardinality(evaluated) * (IF tcfg.VPCPing > 0 THEN 1 ELSE 0)
    + Cardinality({q \in evaluated : q[2] \in Range(tservers[q[1]].VPCPeers)})
      * (IF tcfg.VPCIperf > 0 THEN 1 ELSE 0)

\* C11: with VPC checks enabled each ordered pair adds to total-tested once
\* for each check category it was evaluated under: 2 under ping and
\* throughput, 1 under ping only, 0 under no category; so what the pairs have
\* added (total-tested less the egress checks) is the number of categories run.
C11_TestedPerCategory ==
    totalTested - Cardinality(extEvaluated) = CategoriesRun

--------------------------------------------------------------------------
(* The throughput check of one expected pair, task by task: the initiating *)
(* thread starts two goroutines, waits for both, and scores the pair.      *)
(* The goroutines assign to passed without synchronisation; every such     *)
(* assignment stores false and wg.Wait() orders all of them before the     *)
(* initiating thread reads passed, so whatever order the build gives two   *)
(* racing assignments the variable holds false after them.                 *)

\* the bit rates a report may state
BpsValues ==
    {Bps(0, 0), Bps(8, 499999999), Bps(8, 500000000), Bps(8, 500000001),
     Bps(9, 400000000)}

\* how the two iperf3 sessions may end
IperfProbes ==
    {IperfOutcome(se, ce, pa, b) :
        se \in BOOLEAN, ce \in BOOLEAN, pa \in BOOLEAN, b \in BpsValues}

\* wg.Add(2) and the two go statements
IperfSpawn ==
    /\ ipc = "spawn"
    /\ wg' = 2 /\ serverTask' = "ssh" /\ clientTask' = "sleep" /\ ipc' = "wait"
    /\ UNCHANGED <<passedBefore, probe, passedFlag, writers, scored>>
    /\ UNCHANGED <<portVars, vmVars, testVars, uniVars, createVars>>

\* the first goroutine: its ssh returns, an error clears passed, wg.Done()
ServerProbe ==
    /\ serverTask = "ssh"
    /\ IF probe.serverErr
       THEN passedFlag' = FALSE /\ writers' = writers \cup {"server"}
       ELSE UNCHANGED <<passedFlag, writers>>
    /\ serverTask' = "done" /\ wg' = wg - 1
    /\ UNCHANGED <<passedBefore, probe, clientTask, ipc, scored>>
    /\ UNCHANGED <<portVars, vmVars, testVars, uniVars, createVars>>

\* the second goroutine: time.Sleep returns
ClientWake ==
    /\ clientTask = "sleep"
    /\ clientTask' = "ssh"
    /\ UNCHANGED <<passedBefore, probe, passedFlag, serverTask, wg, ipc, writers,
                   scored>>
    /\ UNCHANGED <<portVars, vmVars, testVars, uniVars, createVars>>

\* the second goroutine: its ssh returns; an error, an unreadable report or
\* a rate below the floor clears passed; wg.Done()
ClientProbe ==
    /\ clientTask = "ssh"
    /\ IF probe.clientErr \/ ~probe.parsed \/ BelowFloor(probe.bps)
       THEN passedFlag' = FALSE /\ writers' = writers \cup {"client"}
       ELSE UNCHANGED <<passedFlag, writers>>
    /\ clientTask' = "done" /\ wg' = wg - 1
    /\ UNCHANGED <<passedBefore, probe, serverTask, ipc, scored>>
    /\ UNCHANGED <<portVars, vmVars, testVars, uniVars, createVars>>

IperfJoin_noWait ==
    /\ ipc = "wait"
    /\ scored' = IF passedFlag THEN "passed" ELSE "failed"
    /\ ipc' = "done"
    /\ UNCHANGED <<passedBefore, probe, passedFlag, serverTask, clientTask, wg,
                   writers>>
    /\ UNCHANGED <<portVars, vmVars, testVars, uniVars, createVars>>

\* wg.Wait() returns and the pair is scored
IperfJoin ==
    /\ ipc = "wait"
    /\ wg = 0
    /\ scored' = IF passedFlag THEN "passed" ELSE "failed"
    /\ ipc' = "done"
    /\ UNCHANGED <<passedBefore, probe, passedFlag, serverTask, clientTask, wg,
                   writers>>
    /\ UNCHANGED <<portVars, vmVars, testVars, uniVars, createVars>>

\* the throughput check is reached with passed as the ping block left it
InitIperf ==
    /\ passedBefore \in BOOLEAN
    /\ passedFlag = passedBefore
    /\ probe \in IperfProbes
    /\ serverTask = "idle" /\ clientTask = "idle" /\ wg = 0 /\ ipc = "spawn"
    /\ writers = {"main"} /\ scored = "no"
    /\ PortIdle /\ VMIdle /\ TestIdle /\ UniIdle /\ CreateIdle

NextIperf == IperfSpawn \/ ServerProbe \/ ClientWake \/ ClientProbe \/ IperfJoin

SpecIperf == InitIperf /\ [][NextIperf]_vars

--------------------------------------------------------------------------
(* Properties of the throughput check *)

\* the sent rate of the report is below 8,500,000,000 bits per second: it
\* has fewer than 85 hundred-millions
SentBelowFloor == probe.bps.g * 10 + (probe.bps.r \div 100000000) < 85

\* both probes returned without error and the report parsed
ProbesClean == ~probe.serverErr /\ ~probe.clientErr /\ probe.parsed

\* C12: when the throughput check runs with both probes succeeding and a
\* parsable report, its verdict is decided by the sent bits per second alone:
\* every rate below 8,500,000,000 fails the pair, and at or above it the check
\* passes, leaving the pair as the ping left it.
C12_ThroughputFloor ==
    (scored # "no" /\ ProbesClean) =>
        /\ SentBelowFloor => (scored = "failed" /\ ~passedFlag)
        /\ ~SentBelowFloor => (passedFlag = passedBefore)
        /\ ~SentBelowFloor => (scored = "passed" <=> passedBefore)

\* a report of exactly 8,500,000,000 passes the pair
C12_Witness ==
    /\ scored = "passed" /\ ProbesClean
    /\ probe.bps = Bps(8, 500000000)

\* C17: the server-mode and the client-mode task never write the per-pair
\* verdict; only the initiating thread assigns to it.
C17_OnlyInitiatorWrites == writers \subseteq {"main"}

\* C18: the pair is scored only after both tasks have terminated, and it is
\* counted as passed if and only if the ping verdict was pass, both probes
\* returned without error, the report parsed and the sent rate was not below
\* the floor: a function of the inputs alone, whatever the interleaving.
C18_ScoredAfterJoin ==
    scored # "no" =>
        /\ serverTask = "done" /\ clientTask = "done" /\ wg = 0
        /\ (scored = "passed") <=>
              (passedBefore /\ ProbesClean /\ ~SentBelowFloor)

\* both tasks cleared the flag before the pair was scored as failed
C18_Witness ==
    /\ scored = "failed" /\ passedBefore
    /\ writers = {"main", "server", "client"}

--------------------------------------------------------------------------
(* TestServerConnectivity from the agent check to the test universe *)

MaxAgents == 2
MaxDevices == 2
MaxTestConns == 2
MaxAttachments == 2

\* the heartbeat limit in seconds: time.Now().Add(-1 * time.Minute)
HeartbeatLimit == 60

AgentNames == <<"agent-1", "agent-2", "agent-3">>

TestConnNames == <<"conn-1", "conn-2", "conn-3">>

AttachmentNames == <<"attach-1", "attach-2", "attach-3">>

\* the agents the list may hold at position k: age is the age of the last
\* heartbeat in seconds
AgentChoices(k) ==
    {[name |-> AgentNames[k], age |-> a, applied |-> g[1], generation |-> g[2]] :
        a \in {HeartbeatLimit - 1, HeartbeatLimit, HeartbeatLimit + 1},
        g \in {1, 2} \X {1, 2}}

AgentRejected_heartbeatOnly(a) == a.age > HeartbeatLimit

\* the two tests on an agent: LastHeartbeat before now less a minute,
\* LastAppliedGen different from Generation
AgentRejected(a) == a.age > HeartbeatLimit \/ a.applied # a.generation

\* Wiring.Server.All(): the k-th device has the k-th name
DeviceLists ==
    UNION {{f \in [1..n -> [name : {TestNames[k] : k \in 1..n}, control : BOOLEAN,
                            vm : BOOLEAN]] :
               \A k \in 1..n : f[k].name = TestNames[k]} :
           n \in 0..MaxDevices}

\* the kinds of connection: the first three have Unbundled, Bundled or MCLAG set
TestConnKinds == {"unbundled", "mclag", "fabric"}

\* Wiring.Connection.All(): servers is what Spec.Endpoints() returns
TestConnLists ==
    UNION {{f \in [1..n -> [name : {TestConnNames[k] : k \in 1..n},
                            kind : TestConnKinds,
                            servers : {<<"s1">>, <<"s2">>}]] :
               \A k \in 1..n : f[k].name = TestConnNames[k]} :
           n \in 0..MaxTestConns}

\* vpcAttachList.Items
AttachmentLists ==
    UNION {{f \in [1..n -> [name : {AttachmentNames[k] : k \in 1..n},
                            connection : {"conn-1", "conn-2"},
                            vpc : {"vpc-1"}, subnet : {"default"}]] :
               \A k \in 1..n : f[k].name = AttachmentNames[k]} :
           n \in 0..MaxAttachments}

\* Spec.Unbundled, Spec.Bundled or Spec.MCLAG is set
Qualifying(c) == c.kind \in {"unbundled", "bundled", "mclag"}

\* the loop over the connections for the server name: the connection kept,
\* and whether the loop left by continue serverLoop
RECURSIVE ScanConns(_, _, _)
ScanConns(list, name, found) ==
    IF list = <<>> THEN [conn |-> found, skip |-> FALSE]
    ELSE IF ~Qualifying(Head(list)) THEN ScanConns(Tail(list), name, found)
    ELSE IF Len(Head(list).servers) # 1 THEN [conn |-> found, skip |-> TRUE]
    ELSE IF name \notin Range(Head(list).servers) THEN ScanConns(Tail(list), name, found)
    ELSE IF found # "" THEN [conn |-> found, skip |-> TRUE]
    ELSE ScanConns(Tail(list), name, Head(list).name)

\* the loop over the attachments for the connection kept: a second match is
\* logged and the loop goes on, the first match stays
RECURSIVE ScanAttachments(_, _, _)
ScanAttachments(list, connName, found) ==
    IF list = <<>> THEN found
    ELSE IF Head(list).connection # connName
    THEN ScanAttachments(Tail(list), connName, found)
    ELSE IF found # NoItem THEN ScanAttachments(Tail(list), connName, found)
    ELSE ScanAttachments(Tail(list), connName, Head(list))

\* how the address probe of a server may end
ProbeResults == {"ok", "ssh-error", "parse-error", "subnet-mismatch"}

\* whether the loop over vpcList.Items finds the VPC of the attachment, and
\* the subnet of the attachment in it
VPCLookups == {"found", "no-subnet", "no-vpc"}

\* one iteration of the loop over agentList.Items
AgentStep ==
    /\ tpc = "agents"
    /\ Ranged(AgentNames, agent) < MaxAgents
    /\ \E item \in AgentChoices(Ranged(AgentNames, agent) + 1) :
         /\ agent' = item
         /\ agentDefect' = (agentDefect \/ item.age > HeartbeatLimit
                                        \/ item.applied # item.generation)
         /\ IF AgentRejected(item) THEN TestFatal ELSE UNCHANGED <<tpc, tret>>
    /\ UNCHANGED <<devices, tconns, attachments, di, remoteCalls>>
    /\ UNCHANGED <<tcfg, tservers, peering, extPeering, peered, ti, tj, totalTested,
                   totalPassed, lastPing, evaluated, extEvaluated, failedChecks>>
    /\ UNCHANGED <<portVars, vmVars, iperfVars, createVars>>

\* one of the four kube.List calls after the agents returns an error
ListError ==
    /\ tpc = "agents"
    /\ TestFatal
    /\ UNCHANGED uniVars
    /\ UNCHANGED <<tcfg, tservers, peering, extPeering, peered, ti, tj, totalTested,
                   totalPassed, lastPing, evaluated, extEvaluated, failedChecks>>
    /\ UNCHANGED <<portVars, vmVars, iperfVars, createVars>>

\* the end of the loop over the agents: the lists are fetched and the loop
\* over the servers of the wiring starts
AgentsDone ==
    /\ tpc = "agents"
    /\ devices' \in DeviceLists
    /\ tconns' \in TestConnLists
    /\ attachments' \in AttachmentLists
    /\ tpc' = "serverloop" /\ di' = 1
    /\ agent' = NoItem
    /\ UNCHANGED <<agentDefect, remoteCalls>>
    /\ UNCHANGED <<tcfg, tservers, peering, extPeering, peered, ti, tj, totalTested,
                   totalPassed, lastPing, evaluated, extEvaluated, failedChecks, tret>>
    /\ UNCHANGED <<portVars, vmVars, iperfVars, createVars>>

\* one iteration of serverLoop
ServerLoopStep ==
    /\ tpc = "serverloop"
    /\ di <= Len(devices)
    /\ LET server == devices[di]
           scan == ScanConns(tconns, server.name, "")
           attachment == ScanAttachments(attachments, scan.conn, NoItem)
       IN IF \/ server.control \/ ~server.vm
             \/ scan.skip \/ scan.conn = ""
             \/ attachment = NoItem
          THEN /\ di' = di + 1
               /\ UNCHANGED <<tservers, tpc, tret, remoteCalls>>
          ELSE \E lookup \in VPCLookups, result \in ProbeResults :
                 IF lookup = "no-subnet"
                 THEN TestFatal /\ UNCHANGED <<tservers, di, remoteCalls>>
                 ELSE /\ remoteCalls' = remoteCalls + 1
                      /\ IF result \in {"ssh-error", "parse-error"}
                         THEN TestFatal /\ UNCHANGED <<tservers, di>>
                         ELSE IF lookup = "no-vpc"
                         THEN /\ tret' = "panic" /\ tpc' = "done"
                              /\ UNCHANGED <<tservers, di>>
                         ELSE IF result = "subnet-mismatch"
                         THEN TestFatal /\ UNCHANGED <<tservers, di>>
                         ELSE /\ tservers' = [n \in DOMAIN tservers \cup {server.name} |->
                                                IF n = server.name
                                                THEN [NewServer(server.name, attachment.vpc)
                                                        EXCEPT !.Subnet = attachment.subnet]
                                                ELSE tservers[n]]
                              /\ di' = di + 1
                              /\ UNCHANGED <<tpc, tret>>
    /\ UNCHANGED <<agent, agentDefect, devices, tconns, attachments>>
    /\ UNCHANGED <<tcfg, peering, extPeering, peered, ti, tj, totalTested,
                   totalPassed, lastPing, evaluated, extEvaluated, failedChecks>>
    /\ UNCHANGED <<portVars, vmVars, iperfVars, createVars>>

\* the end of serverLoop: the loops over the peerings start, and the lists
\* that only serverLoop reads are read no more
ServerLoopDone ==
    /\ tpc = "serverloop"
    /\ di > Len(devices)
    /\ tpc' = "peerings"
    /\ devices' = <<>> /\ tconns' = <<>> /\ attachments' = <<>> /\ di' = 0
    /\ UNCHANGED <<agent, agentDefect, remoteCalls>>
    /\ UNCHANGED <<tcfg, tservers, peering, extPeering, peered, ti, tj, totalTested,
                   totalPassed, lastPing, evaluated, extEvaluated, failedChecks, tret>>
    /\ UNCHANGED <<portVars, vmVars, iperfVars, createVars>>

\* the configurations of a whole run: every category on, with and without
\* the external checks
RunConfigs ==
    {c \in TestConfigs : c.VPC /\ c.VPCPing = 1 /\ c.VPCIperf = 0 /\ c.ExtCurl = c.Ext}

\* TestServerConnectivity from its first statement
InitUniverse ==
    /\ tcfg \in RunConfigs
    /\ tservers = NoVMs
    /\ peering = NoItem /\ extPeering = NoItem /\ peered = {}
    /\ tpc = "agents" /\ ti = 0 /\ tj = 0 /\ totalTested = 0 /\ totalPassed = 0
    /\ lastPing = NoPing /\ evaluated = {} /\ extEvaluated = {}
    /\ failedChecks = 0 /\ tret = "pending"
    /\ UniIdle
    /\ PortIdle /\ VMIdle /\ IperfIdle /\ CreateIdle

NextUniverse ==
    \/ AgentStep \/ ListError \/ AgentsDone \/ ServerLoopStep \/ ServerLoopDone
    \/ NextTest

SpecUniverse == InitUniverse /\ [][NextUniverse]_vars

--------------------------------------------------------------------------
(* Properties of the agent check and of serverLoop *)

\* nothing of the later phases has happened: no address probe, no server in
\* the universe, no check run or counted
NothingRun ==
    /\ remoteCalls = 0 /\ DOMAIN tservers = {}
    /\ totalTested = 0 /\ totalPassed = 0 /\ failedChecks = 0
    /\ lastPing = NoPing /\ evaluated = {} /\ extEvaluated = {}

\* C13: once the list of agents has shown an agent whose heartbeat is older
\* than 60 seconds, or whose last applied generation is not its generation,
\* the run has returned an error, with no remote command run and no check
\* counted.
C13_AgentGate == agentDefect => (tret = "error" /\ tpc = "done" /\ NothingRun)

\* an agent with a fresh heartbeat and a lagging generation has stopped the run
C13_Witness ==
    /\ agentDefect /\ tret = "error"
    /\ agent.age <= HeartbeatLimit /\ agent.applied # agent.generation

\* a run whose agents were all sound has counted a check
C13_SoundRun == ~agentDefect /\ totalTested > 0 /\ remoteCalls > 0

\* the qualifying connections that name the server
QualifyingFor(name) ==
    {k \in 1..Len(tconns) : Qualifying(tconns[k]) /\ name \in Range(tconns[k].servers)}

\* the attachments bound to a qualifying connection of the server
BoundTo(name) ==
    {k \in 1..Len(attachments) :
        \E c \in QualifyingFor(name) : attachments[k].connection = tconns[c].name}

\* the devices serverLoop has to look at: not control nodes, with a VM
Candidates == {k \in 1..Len(devices) : ~devices[k].control /\ devices[k].vm}

\* a device of the given kind is left out: once serverLoop is past it, it is
\* not in the universe, and serverLoop does not return while it is at it
LeftOut(k) ==
    /\ k < di => devices[k].name \notin DOMAIN tservers
    /\ k = di => tret = "pending"

\* C15: a device with a VM that is no control node is left out, with no
\* return and with the loop going on, when it has no qualifying connection,
\* several of them, or several attachments bound to its one qualifying
\* connection; with one connection and one attachment it is in the universe
\* once serverLoop is past it.
C15_LeftOut ==
    \A k \in Candidates :
        LET q == Cardinality(QualifyingFor(devices[k].name))
            a == Cardinality(BoundTo(devices[k].name))
        IN /\ (q = 0 \/ q > 1 \/ (q = 1 /\ a > 1)) => LeftOut(k)
           /\ (q = 1 /\ a = 1 /\ k < di) => devices[k].name \in DOMAIN tservers

\* the same without the case of several attachments
C15_ConnectionCases ==
    \A k \in Candidates :
        LET q == Cardinality(QualifyingFor(devices[k].name))
            a == Cardinality(BoundTo(devices[k].name))
        IN /\ (q = 0 \/ q > 1) => LeftOut(k)
           /\ (q = 1 /\ a = 0) => LeftOut(k)
           /\ (q = 1 /\ a >= 1 /\ k < di) => devices[k].name \in DOMAIN tservers

--------------------------------------------------------------------------
(* Properties of the loop over the external peerings *)

\* the external peering permits the default route
PermitsDefault(item) == "0.0.0.0/0" \in Range(item.prefixes)

\* the external peering matches the server: same VPC, and the subnet of the
\* server among the permitted subnets
Matches(server, item) == server.VPC = item.vpc /\ server.Subnet \in Range(item.subnets)

\* C14: when the loop has come to an external peering whose prefixes lack
\* 0.0.0.0/0, the run has returned an error; no ping, throughput or egress
\* check has run and total-tested has not been incremented, whatever the
\* configuration and whether or not a server matches.
C14_DefaultRouteGate ==
    (extPeering # NoItem /\ ~PermitsDefault(extPeering)) =>
        /\ tret = "error" /\ tpc = "done"
        /\ totalTested = 0 /\ totalPassed = 0
        /\ lastPing = NoPing /\ evaluated = {} /\ extEvaluated = {}

\* the run has stopped on such a peering with the egress checks off and no
\* server matching it, the peering having other prefixes
C14_Witness ==
    /\ extPeering # NoItem /\ ~PermitsDefault(extPeering)
    /\ extPeering.prefixes # <<>>
    /\ ~tcfg.Ext /\ DOMAIN tservers # {}
    /\ \A s \in DOMAIN tservers : ~Matches(tservers[s], extPeering)
    /\ tret = "error"


\* C16: when the loop comes to an external peering that matches a server to
\* which an earlier external peering is bound, the run returns an error.
C16_SecondPeeringFatal ==
    [][(tpc = "extpeerings" /\ extPeering' # extPeering /\ extPeering' # NoItem) =>
          \A s \in DOMAIN tservers :
              (/\ Matches(tservers[s], extPeering')
               /\ tservers[s].ExternalPeering # NoPeering
               /\ tservers[s].ExternalPeering # extPeering'.name)
              => tret' = "error"]_vars

\* in the test loops each server has at most one external name, the one of
\* the external peering it is bound to
C16_OneExternal ==
    tpc \in {"servers", "pairs", "externals"} =>
        \A s \in DOMAIN tservers :
            /\ Len(tservers[s].Externals) <= 1
            /\ (tservers[s].ExternalPeering = NoPeering) <=> (tservers[s].Externals = <<>>)


\* the same for a second peering to another external
C16_OtherExternalFatal ==
    [][(tpc = "extpeerings" /\ extPeering' # extPeering /\ extPeering' # NoItem) =>
          \A s \in DOMAIN tservers :
              (/\ Matches(tservers[s], extPeering')
               /\ tservers[s].ExternalPeering # NoPeering
               /\ extPeering'.external \notin Range(tservers[s].Externals))
              => tret' = "error"]_vars

--------------------------------------------------------------------------
(* Properties of the interface indices and of the transport ports *)

\* C19: in the registry of a successful compilation every key of every
\* VM's Interfaces is non-negative.
C19_NonNegativeKeys ==
    Compiled =>
        \A n \in DOMAIN ret.mngr : \A i \in DOMAIN ret.mngr[n].Interfaces : i >= 0

\* the interfaces of the registry that carry a socket transport
LiveInterfaces ==
    UNION {{<<n, i>> : i \in {k \in DOMAIN ret.mngr[n].Interfaces :
                                 ret.mngr[n].Interfaces[k].Netdev.kind = "socket"}} :
           n \in DOMAIN ret.mngr}

\* C20: in the registry of a successful compilation no two interfaces with
\* a socket transport have the same UDP port.
C20_InjectivePorts ==
    Compiled =>
        \A p, q \in LiveInterfaces :
            p # q => ret.mngr[p[1]].Interfaces[p[2]].Netdev.udp
                     # ret.mngr[q[1]].Interfaces[q[2]].Netdev.udp

\* the same for registries whose indices are all within 0..99
C20_BoundedIndices ==
    (Compiled /\ \A p \in LiveInterfaces : p[2] \in 0..(IF_PORT_VM_ID_MULT - 1)) =>
        \A p, q \in LiveInterfaces :
            p # q => ret.mngr[p[1]].Interfaces[p[2]].Netdev.udp
                     # ret.mngr[q[1]].Interfaces[q[2]].Netdev.udp

--------------------------------------------------------------------------
(* Properties of the expansion of a connection into links *)

\* NewVMManager has returned an error
CompileFailed == pc = "done" /\ ret.nil

\* the loop over the links of the current connection is over without an error
ConnProcessed == conn # NoConn /\ pc # "links" /\ ~CompileFailed

\* C21: a connection that NewVMManager has processed without an error has
\* expanded to at least one link pair, whatever its variant, and a
\* connection with no variant set makes the compilation fail.
C21_NoEmptyExpansion ==
    /\ ConnProcessed => Len(conn.links) >= 1
    /\ (conn # NoConn /\ conn.variant \notin Variants) =>
           (CompileFailed /\ ret.err = "unsupported-conn")

\* the same for the variants with a single Link field and for no variant
C21_SingleLinkVariants ==
    /\ (ConnProcessed /\ ExpandKind(conn.variant) # "list") => Len(conn.links) >= 1
    /\ (conn # NoConn /\ conn.variant \notin Variants) =>
           (CompileFailed /\ ret.err = "unsupported-conn")

--------------------------------------------------------------------------
(* CreateVPCPerServer *)

\* the loop over the connections for the server name: the last connection
\* that names the server and has Unbundled, Bundled or MCLAG set, "" for nil
RECURSIVE PickConn(_, _, _)
PickConn(list, name, found) ==
    IF list = <<>> THEN found
    ELSE IF name \notin Range(Head(list).servers) THEN PickConn(Tail(list), name, found)
    ELSE IF ~Qualifying(Head(list)) THEN PickConn(Tail(list), name, found)
    ELSE PickConn(Tail(list), name, Head(list))

\* the calls of one iteration that may return an error: Spec.Endpoints, the
\* CreateOrUpdate of the VPC, the CreateOrUpdate of the attachment
CreateFaults == {"none", "endpoints", "vpc", "attach"}

\* how configuring one server over SSH may end
ConfigResults == {"ok", "conn-error", "cleanup-error", "hhnet-error"}

\* the VPC object of index idx: its name, subnet and VLAN are made from idx
NewVPC(idx) == [name |-> idx, subnet |-> idx, vlan |-> 1000 + idx]

\* the attachment of the server's connection to the VPC of index idx
NewAttachment(server, c, idx) == [server |-> server, connection |-> c.name, vpc |-> idx]

\* the net argument of hhnet: vlan for Unbundled, bond otherwise
NetConf(server, c, idx) ==
    [Name |-> server,
     Net |-> [mode |-> IF c.kind = "unbundled" THEN "vlan" ELSE "bond", vlan |-> 1000 + idx]]

\* a return with an error
CreateFatal == cret' = "error" /\ cpc' = "done"

\* kubeClient returns an error
KubeClientError ==
    /\ cpc = "start"
    /\ CreateFatal
    /\ UNCHANGED <<cservers, cconns, csi, vpcIdx, netconfs, ni, vpcStore, attachStore,
                   configured>>
    /\ UNCHANGED <<portVars, vmVars, testVars, iperfVars, uniVars>>

\* kubeClient succeeds: idx := 1, netconfs is empty, the loop starts
CreateStart ==
    /\ cpc = "start"
    /\ cpc' = "loop" /\ csi' = 1 /\ vpcIdx' = 1
    /\ UNCHANGED <<cservers, cconns, netconfs, ni, vpcStore, attachStore, configured, cret>>
    /\ UNCHANGED <<portVars, vmVars, testVars, iperfVars, uniVars>>

\* one iteration of the loop over svc.cfg.Wiring.Server.All()
CreateStep ==
    /\ cpc = "loop"
    /\ csi <= Len(cservers)
    /\ LET server == cservers[csi]
           c == PickConn(cconns, server.name, NoItem)
       IN IF server.control
          THEN /\ csi' = csi + 1
               /\ UNCHANGED <<vpcIdx, netconfs, vpcStore, attachStore, cpc, cret>>
          ELSE IF ~server.vm
          THEN CreateFatal /\ UNCHANGED <<csi, vpcIdx, netconfs, vpcStore, attachStore>>
          ELSE \E fault \in IF c = NoItem
                            THEN (IF cconns = <<>> THEN {"none"} ELSE {"none", "endpoints"})
                            ELSE CreateFaults :
                 IF fault = "endpoints"
                 THEN CreateFatal /\ UNCHANGED <<csi, vpcIdx, netconfs, vpcStore, attachStore>>
                 ELSE IF c = NoItem
                 THEN /\ cret' = "nil" /\ cpc' = "done"
                      /\ UNCHANGED <<csi, vpcIdx, netconfs, vpcStore, attachStore>>
                 ELSE IF fault = "vpc"
                 THEN CreateFatal /\ UNCHANGED <<csi, vpcIdx, netconfs, vpcStore, attachStore>>
                 ELSE IF fault = "attach"
                 THEN /\ vpcStore' = vpcStore \cup {NewVPC(vpcIdx)}
                      /\ CreateFatal /\ UNCHANGED <<csi, vpcIdx, netconfs, attachStore>>
                 ELSE /\ vpcStore' = vpcStore \cup {NewVPC(vpcIdx)}
                      /\ attachStore' = attachStore \cup {NewAttachment(server.name, c, vpcIdx)}
                      /\ netconfs' = Append(netconfs, NetConf(server.name, c, vpcIdx))
                      /\ vpcIdx' = vpcIdx + 1
                      /\ csi' = csi + 1
                      /\ UNCHANGED <<cpc, cret>>
    /\ UNCHANGED <<cservers, cconns, ni, configured>>
    /\ UNCHANGED <<portVars, vmVars, testVars, iperfVars, uniVars>>

\* the loop over the servers is over: goph.Key loads the SSH key or fails
CreateLoopDone ==
    /\ cpc = "loop"
    /\ csi > Len(cservers)
    /\ \E keyErr \in BOOLEAN :
         IF keyErr THEN CreateFatal /\ UNCHANGED ni
         ELSE cpc' = "config" /\ ni' = 1 /\ UNCHANGED cret
    /\ UNCHANGED <<cservers, cconns, csi, vpcIdx, netconfs, vpcStore, attachStore,
                   configured>>
    /\ UNCHANGED <<portVars, vmVars, testVars, iperfVars, uniVars>>

\* one iteration of the loop over netconfs
ConfigStep ==
    /\ cpc = "config"
    /\ ni <= Len(netconfs)
    /\ \E result \in ConfigResults :
         IF result = "ok"
         THEN /\ configured' = configured \cup {netconfs[ni].Name}
              /\ ni' = ni + 1
              /\ UNCHANGED <<cpc, cret>>
         ELSE CreateFatal /\ UNCHANGED <<configured, ni>>
    /\ UNCHANGED <<cservers, cconns, csi, vpcIdx, netconfs, vpcStore, attachStore>>
    /\ UNCHANGED <<portVars, vmVars, testVars, iperfVars, uniVars>>

\* the loop over netconfs is over: return nil
ConfigDone ==
    /\ cpc = "config"
    /\ ni > Len(netconfs)
    /\ cret' = "nil" /\ cpc' = "done"
    /\ UNCHANGED <<cservers, cconns, csi, vpcIdx, netconfs, ni, vpcStore, attachStore,
                   configured>>
    /\ UNCHANGED <<portVars, vmVars, testVars, iperfVars, uniVars>>

\* CreateVPCPerServer on a wiring model, the store holding none of its objects
InitCreate ==
    /\ cservers \in DeviceLists
    /\ cconns \in TestConnLists
    /\ csi = 0 /\ vpcIdx = 0 /\ netconfs = <<>> /\ ni = 0
    /\ vpcStore = {} /\ attachStore = {} /\ configured = {}
    /\ cpc = "start" /\ cret = "pending"
    /\ PortIdle /\ VMIdle /\ TestIdle /\ IperfIdle /\ UniIdle

NextCreate ==
    \/ KubeClientError \/ CreateStart \/ CreateStep \/ CreateLoopDone
    \/ ConfigStep \/ ConfigDone

SpecCreate == InitCreate /\ [][NextCreate]_vars

\* the servers CreateVPCPerServer is to serve: not control nodes, with an
\* Unbundled, Bundled or MCLAG connection
Served ==
    {k \in 1..Len(cservers) :
        /\ ~cservers[k].control
        /\ PickConn(cconns, cservers[k].name, NoItem) # NoItem}

\* the server has its attachment to a VPC of its own, and that VPC is in
\* the store with its subnet and VLAN
HasOwnVPC(name) ==
    \E a \in attachStore :
        /\ a.server = name
        /\ \A b \in attachStore : b.vpc = a.vpc => b = a
        /\ \E v \in vpcStore : v.name = a.vpc
        /\ \A v, w \in vpcStore :
               (v.name = a.vpc /\ w # v) => (w.subnet # v.subnet /\ w.vlan # v.vlan)

\* C22: when CreateVPCPerServer has returned nil, every server that is no
\* control node and has an Unbundled, Bundled or MCLAG connection has its
\* own VPC and attachment in the store and its host network configured,
\* wherever the servers without such a connection stand in the list.
C22_EveryServerServed ==
    cret = "nil" =>
        \A k \in Served : HasOwnVPC(cservers[k].name) /\ cservers[k].name \in configured

\* the same when every server that is no control node has such a connection
C22_AllConnected ==
    (cret = "nil" /\ \A k \in 1..Len(cservers) : cservers[k].control \/ k \in Served) =>
        \A k \in Served : HasOwnVPC(cservers[k].name) /\ cservers[k].name \in configured

==========================================================================
